---- MODULE Spec2Model ----
(***************************************************************************)
(* gym-dummy: the episodic interaction protocol of the two environments   *)
(* GreaterThanZeroEnv (gym_dummy/envs/fobs) and TwoInARowEnv               *)
(* (gym_dummy/envs/pobs).  One environment instance is created through    *)
(* the registry (gym_dummy/__init__.py) and driven by a sequence of       *)
(* reset() and step(action) calls.  A call that raises is a transition    *)
(* too: it keeps every assignment made before the raise.                  *)
(***************************************************************************)
EXTENDS Integers, Sequences, FiniteSets, TLC

\* ------------------------------------------------------------------ bounds
\* max_steps_per_episode is drawn from 1..MaxSteps at construction.
MaxSteps == 2
\* The driver makes at most MaxCalls calls of reset and step on the instance.
MaxCalls == 5

\* ------------------------------------------------------------------ inputs
\* Entry points of the registry that have a class in the sources.
EnvClasses == {"GreaterThanZeroEnv", "TwoInARowEnv"}
\* Actions the driver may pass to step: the two legal ones and an illegal one.
ActionInputs == {0, 1, 2}
\* np.random.randn(): a negative, a zero and a positive sample.
Randn == {-1, 0, 1}
\* random.choice([0, 1])
RandomChoice == {0, 1}
\* metadata['render.modes'], and a mode outside it
RenderModes == {"human", "ansi"}
\* q_values: inputs = [[[0], [0]], [[1], [1]], [[0], [1]], [[1], [0]]]
QInputs == << <<<<0>>, <<0>>>>, <<<<1>>, <<1>>>>,
              <<<<0>>, <<1>>>>, <<<<1>>, <<0>>>> >>
\* Models handed to q_values: model.predict(inp) is [[q0, q1]]; one model
\* has learnt the rule of TwoInARowEnv, the other prefers action 0.
QModels ==
    { [inp \in {QInputs[i] : i \in 1..4} |->
          IF inp[1] = inp[2] THEN << <<-1, 1>> >> ELSE << <<1, -1>> >>],
      [inp \in {QInputs[i] : i \in 1..4} |-> << <<1, 0>> >>] }

VARIABLES
    env,                    \* class of the instance
    max_steps_per_episode,  \* self.max_steps_per_episode
    curr_episode,           \* self.curr_episode
    curr_step,              \* self.curr_step
    obs_episode_memory,     \* self.obs_episode_memory: list of lists of [x]
    action_episode_memory,  \* self.action_episode_memory: list of lists
    call,                   \* the last call made by the driver
    ret,                    \* what the last call returned or raised
    n_calls,                \* calls of reset and step made so far
    n_ok,                   \* successful steps since the last reset
    n_fail,                 \* raising steps since the last reset
    done_returned           \* a step of the current episode returned done

vars == <<env, max_steps_per_episode, curr_episode, curr_step,
          obs_episode_memory, action_episode_memory, call, ret,
          n_calls, n_ok, n_fail, done_returned>>

\* The fields of the instance.
state == <<curr_step, curr_episode, obs_episode_memory, action_episode_memory>>

\* ------------------------------------------------------ Python list access
\* lst[i] raises IndexError unless -len(lst) <= i < len(lst).
PyIndexOK(i, n) == (-n <= i) /\ (i < n)
\* The 1-based position of lst[i] in a list of length n.
PyIndex(i, n) == IF i >= 0 THEN i + 1 ELSE n + i + 1
\* lst[-1]
PyLast(lst) == lst[Len(lst)]
\* lst[i].append(x)
PyAppendAt(mem, i, x) ==
    [mem EXCEPT ![PyIndex(i, Len(mem))] = Append(@, x)]

\* A call that returned (ob, reward, done, {}) or, for reset, ob.
Returned(ob, reward, done) ==
    [kind |-> "ok", ob |-> ob, reward |-> reward, done |-> done]
\* A call that raised.
Raised(kind) ==
    [kind |-> kind, ob |-> <<>>, reward |-> 0, done |-> FALSE]

\* --------------------------------------------------------------- __init__
Init ==
    /\ env \in EnvClasses
    /\ max_steps_per_episode \in 1..MaxSteps
    /\ curr_episode = -1
    /\ obs_episode_memory = <<>>
    /\ action_episode_memory = <<>>
    /\ curr_step = 0
    /\ call = [op |-> "init", action |-> 0]
    /\ ret = Raised("none")
    /\ n_calls = 0
    /\ n_ok = 0
    /\ n_fail = 0
    /\ done_returned = FALSE

\* ============================================ GreaterThanZeroEnv (fobs)
\* Mutation of the check of line 97: > for >=.
GreaterThanZeroEnv_step_done_check_gt(cs, max) == cs > max
\* step, line 97: done = self.curr_step >= self.max_steps_per_episode
GreaterThanZeroEnv_step_done_check(cs, max) == cs >= max
\* step, line 104: done recomputed after the increment
GreaterThanZeroEnv_step_done(cs, max) == cs >= max
\* _take_action returns normally (does not raise ValueError)
GreaterThanZeroEnv_take_action(action) == action \in {0, 1}
\* _get_obs
GreaterThanZeroEnv_get_obs == {<<x>> : x \in Randn}

\* Mutation of _get_reward: last_obs[0] >= 0 for last_obs[0] > 0.
GreaterThanZeroEnv_get_reward_ge(am, om, ce) ==
    LET action == PyLast(am[PyIndex(ce, Len(am))])
        last_obs == PyLast(om[PyIndex(ce, Len(om))])
    IN IF last_obs[1] >= 0
       THEN (IF action = 1 THEN 1 ELSE -1)
       ELSE (IF action = 1 THEN -1 ELSE 1)

\* _get_reward, evaluated on the memories as they are when it is called
GreaterThanZeroEnv_get_reward(am, om, ce) ==
    LET action == PyLast(am[PyIndex(ce, Len(am))])
        last_obs == PyLast(om[PyIndex(ce, Len(om))])
    IN IF last_obs[1] > 0
       THEN (IF action = 1 THEN 1 ELSE -1)
       ELSE (IF action = 1 THEN -1 ELSE 1)

GreaterThanZeroEnv_step(action, ob) ==
    /\ env = "GreaterThanZeroEnv"
    /\ n_calls < MaxCalls
    /\ n_calls' = n_calls + 1
    /\ call' = [op |-> "step", action |-> action]
    /\ UNCHANGED <<env, max_steps_per_episode, curr_episode>>
    /\ IF GreaterThanZeroEnv_step_done_check(curr_step, max_steps_per_episode)
       THEN \* raise RuntimeError("Episode is done")
            /\ ret' = Raised("RuntimeError")
            /\ n_fail' = n_fail + 1
            /\ UNCHANGED <<curr_step, obs_episode_memory,
                           action_episode_memory, n_ok, done_returned>>
       ELSE
            /\ curr_step' = curr_step + 1
            /\ IF ~PyIndexOK(curr_episode, Len(action_episode_memory))
               THEN \* self.action_episode_memory[self.curr_episode] raises
                    /\ ret' = Raised("IndexError")
                    /\ n_fail' = n_fail + 1
                    /\ UNCHANGED <<obs_episode_memory, action_episode_memory,
                                   n_ok, done_returned>>
               ELSE
                    /\ action_episode_memory' =
                         PyAppendAt(action_episode_memory, curr_episode, action)
                    /\ IF ~GreaterThanZeroEnv_take_action(action)
                       THEN \* raise ValueError('Invalid action ', action)
                            /\ ret' = Raised("ValueError")
                            /\ n_fail' = n_fail + 1
                            /\ UNCHANGED <<obs_episode_memory, n_ok,
                                           done_returned>>
                       ELSE LET done == GreaterThanZeroEnv_step_done(
                                            curr_step', max_steps_per_episode)
                                reward == GreaterThanZeroEnv_get_reward(
                                              action_episode_memory',
                                              obs_episode_memory, curr_episode)
                            IN /\ obs_episode_memory' =
                                    PyAppendAt(obs_episode_memory,
                                               curr_episode, ob)
                               /\ ret' = Returned(ob, reward, done)
                               /\ n_ok' = n_ok + 1
                               /\ done_returned' = (done_returned \/ done)
                               /\ UNCHANGED n_fail

\* Mutation of reset: the record of the previous episode is reused.
GreaterThanZeroEnv_reset_reuse(initial_obs) ==
    /\ env = "GreaterThanZeroEnv"
    /\ n_calls < MaxCalls
    /\ n_calls' = n_calls + 1
    /\ call' = [op |-> "reset", action |-> 0]
    /\ curr_step' = 0
    /\ IF curr_episode >= 0
       THEN /\ curr_episode' = curr_episode
            /\ action_episode_memory' =
                 [action_episode_memory EXCEPT ![curr_episode + 1] = <<>>]
            /\ obs_episode_memory' =
                 [obs_episode_memory EXCEPT
                    ![curr_episode + 1] = <<initial_obs>>]
       ELSE /\ curr_episode' = curr_episode + 1
            /\ action_episode_memory' = Append(action_episode_memory, <<>>)
            /\ obs_episode_memory' =
                 Append(obs_episode_memory, <<initial_obs>>)
    /\ ret' = Returned(initial_obs, 0, FALSE)
    /\ n_ok' = 0
    /\ n_fail' = 0
    /\ done_returned' = FALSE
    /\ UNCHANGED <<env, max_steps_per_episode>>

\* Mutation of reset: self.curr_step = 0 left out.
GreaterThanZeroEnv_reset_keeps_step(initial_obs) ==
    /\ env = "GreaterThanZeroEnv"
    /\ n_calls < MaxCalls
    /\ n_calls' = n_calls + 1
    /\ call' = [op |-> "reset", action |-> 0]
    /\ curr_episode' = curr_episode + 1
    /\ action_episode_memory' = Append(action_episode_memory, <<>>)
    /\ obs_episode_memory' = Append(obs_episode_memory, <<initial_obs>>)
    /\ ret' = Returned(initial_obs, 0, FALSE)
    /\ n_ok' = 0
    /\ n_fail' = 0
    /\ done_returned' = FALSE
    /\ UNCHANGED <<env, max_steps_per_episode, curr_step>>

GreaterThanZeroEnv_reset(initial_obs) ==
    /\ env = "GreaterThanZeroEnv"
    /\ n_calls < MaxCalls
    /\ n_calls' = n_calls + 1
    /\ call' = [op |-> "reset", action |-> 0]
    /\ curr_step' = 0
    /\ curr_episode' = curr_episode + 1
    /\ action_episode_memory' = Append(action_episode_memory, <<>>)
    /\ obs_episode_memory' = Append(obs_episode_memory, <<initial_obs>>)
    /\ ret' = Returned(initial_obs, 0, FALSE)
    /\ n_ok' = 0
    /\ n_fail' = 0
    /\ done_returned' = FALSE
    /\ UNCHANGED <<env, max_steps_per_episode>>

\* render: returns None
GreaterThanZeroEnv_render(mode) ==
    /\ env = "GreaterThanZeroEnv"
    /\ call' = [op |-> "render", action |-> 0]
    /\ ret' = Returned(<<>>, 0, FALSE)
    /\ UNCHANGED <<env, max_steps_per_episode, curr_episode, curr_step,
                   obs_episode_memory, action_episode_memory,
                   n_calls, n_ok, n_fail, done_returned>>

\* close: pass
GreaterThanZeroEnv_close ==
    /\ env = "GreaterThanZeroEnv"
    /\ call' = [op |-> "close", action |-> 0]
    /\ ret' = Returned(<<>>, 0, FALSE)
    /\ UNCHANGED <<env, max_steps_per_episode, curr_episode, curr_step,
                   obs_episode_memory, action_episode_memory,
                   n_calls, n_ok, n_fail, done_returned>>

\* ================================================== TwoInARowEnv (pobs)
\* Mutation of the check of line 96: > for >=.
TwoInARowEnv_step_done_check_gt(cs, max) == cs > max
\* step, line 96: done = self.curr_step >= self.max_steps_per_episode
TwoInARowEnv_step_done_check(cs, max) == cs >= max
\* Mutation of the recomputation of line 103: > for >=.
TwoInARowEnv_step_done_gt(cs, max) == cs > max
\* step, line 103: done recomputed after the increment
TwoInARowEnv_step_done(cs, max) == cs >= max
\* Mutation of _take_action: the membership test left out.
TwoInARowEnv_take_action_any(action) == TRUE
\* _take_action returns normally (does not raise ValueError)
TwoInARowEnv_take_action(action) == action \in {0, 1}
\* _get_obs
TwoInARowEnv_get_obs == {<<x>> : x \in RandomChoice}

\* Mutation of _get_reward: the test of the last two observations negated.
TwoInARowEnv_get_reward_ne(am, om, ce) ==
    LET action == PyLast(am[PyIndex(ce, Len(am))])
        obs == om[PyIndex(ce, Len(om))]
    IN IF Len(obs) < 2
       THEN (IF action = 0 THEN 1 ELSE -1)
       ELSE LET last_n_obs == SubSeq(obs, Len(obs) - 1, Len(obs))
            IN IF last_n_obs[1] # last_n_obs[2]
               THEN (IF action = 1 THEN 1 ELSE -1)
               ELSE (IF action = 0 THEN 1 ELSE -1)

\* Mutation of _get_reward: the first step rewarded as a match (action 1).
TwoInARowEnv_get_reward_first_match(am, om, ce) ==
    LET action == PyLast(am[PyIndex(ce, Len(am))])
        obs == om[PyIndex(ce, Len(om))]
    IN IF Len(obs) < 2
       THEN (IF action = 1 THEN 1 ELSE -1)
       ELSE LET last_n_obs == SubSeq(obs, Len(obs) - 1, Len(obs))
            IN IF last_n_obs[1] = last_n_obs[2]
               THEN (IF action = 1 THEN 1 ELSE -1)
               ELSE (IF action = 0 THEN 1 ELSE -1)

\* _get_reward, evaluated on the memories as they are when it is called
TwoInARowEnv_get_reward(am, om, ce) ==
    LET action == PyLast(am[PyIndex(ce, Len(am))])
        obs == om[PyIndex(ce, Len(om))]
    IN IF Len(obs) < 2
       THEN (IF action = 0 THEN 1 ELSE -1)
       ELSE LET last_n_obs == SubSeq(obs, Len(obs) - 1, Len(obs))
            IN IF last_n_obs[1] = last_n_obs[2]
               THEN (IF action = 1 THEN 1 ELSE -1)
               ELSE (IF action = 0 THEN 1 ELSE -1)

TwoInARowEnv_step(action, ob) ==
    /\ env = "TwoInARowEnv"
    /\ n_calls < MaxCalls
    /\ n_calls' = n_calls + 1
    /\ call' = [op |-> "step", action |-> action]
    /\ UNCHANGED <<env, max_steps_per_episode, curr_episode>>
    /\ IF TwoInARowEnv_step_done_check(curr_step, max_steps_per_episode)
       THEN \* raise RuntimeError("Episode is done")
            /\ ret' = Raised("RuntimeError")
            /\ n_fail' = n_fail + 1
            /\ UNCHANGED <<curr_step, obs_episode_memory,
                           action_episode_memory, n_ok, done_returned>>
       ELSE
            /\ curr_step' = curr_step + 1
            /\ IF ~PyIndexOK(curr_episode, Len(action_episode_memory))
               THEN \* self.action_episode_memory[self.curr_episode] raises
                    /\ ret' = Raised("IndexError")
                    /\ n_fail' = n_fail + 1
                    /\ UNCHANGED <<obs_episode_memory, action_episode_memory,
                                   n_ok, done_returned>>
               ELSE
                    /\ action_episode_memory' =
                         PyAppendAt(action_episode_memory, curr_episode, action)
                    /\ IF ~TwoInARowEnv_take_action(action)
                       THEN \* raise ValueError('Invalid action ', action)
                            /\ ret' = Raised("ValueError")
                            /\ n_fail' = n_fail + 1
                            /\ UNCHANGED <<obs_episode_memory, n_ok,
                                           done_returned>>
                       ELSE LET done == TwoInARowEnv_step_done(
                                            curr_step', max_steps_per_episode)
                                reward == TwoInARowEnv_get_reward(
                                              action_episode_memory',
                                              obs_episode_memory, curr_episode)
                            IN /\ obs_episode_memory' =
                                    PyAppendAt(obs_episode_memory,
                                               curr_episode, ob)
                               /\ ret' = Returned(ob, reward, done)
                               /\ n_ok' = n_ok + 1
                               /\ done_returned' = (done_returned \/ done)
                               /\ UNCHANGED n_fail

\* Mutation of reset: the recorded observation is sampled a second time.
TwoInARowEnv_reset_resample(initial_obs) ==
    /\ env = "TwoInARowEnv"
    /\ n_calls < MaxCalls
    /\ n_calls' = n_calls + 1
    /\ call' = [op |-> "reset", action |-> 0]
    /\ curr_step' = 0
    /\ curr_episode' = curr_episode + 1
    /\ action_episode_memory' = Append(action_episode_memory, <<>>)
    /\ \E recorded \in TwoInARowEnv_get_obs :
           obs_episode_memory' = Append(obs_episode_memory, <<recorded>>)
    /\ ret' = Returned(initial_obs, 0, FALSE)
    /\ n_ok' = 0
    /\ n_fail' = 0
    /\ done_returned' = FALSE
    /\ UNCHANGED <<env, max_steps_per_episode>>

\* Mutation of reset: self.curr_step = 0 left out.
TwoInARowEnv_reset_keeps_step(initial_obs) ==
    /\ env = "TwoInARowEnv"
    /\ n_calls < MaxCalls
    /\ n_calls' = n_calls + 1
    /\ call' = [op |-> "reset", action |-> 0]
    /\ curr_episode' = curr_episode + 1
    /\ action_episode_memory' = Append(action_episode_memory, <<>>)
    /\ obs_episode_memory' = Append(obs_episode_memory, <<initial_obs>>)
    /\ ret' = Returned(initial_obs, 0, FALSE)
    /\ n_ok' = 0
    /\ n_fail' = 0
    /\ done_returned' = FALSE
    /\ UNCHANGED <<env, max_steps_per_episode, curr_step>>

\* Mutation of reset: the new observation log starts empty.
TwoInARowEnv_reset_no_seed(initial_obs) ==
    /\ env = "TwoInARowEnv"
    /\ n_calls < MaxCalls
    /\ n_calls' = n_calls + 1
    /\ call' = [op |-> "reset", action |-> 0]
    /\ curr_step' = 0
    /\ curr_episode' = curr_episode + 1
    /\ action_episode_memory' = Append(action_episode_memory, <<>>)
    /\ obs_episode_memory' = Append(obs_episode_memory, <<>>)
    /\ ret' = Returned(initial_obs, 0, FALSE)
    /\ n_ok' = 0
    /\ n_fail' = 0
    /\ done_returned' = FALSE
    /\ UNCHANGED <<env, max_steps_per_episode>>

TwoInARowEnv_reset(initial_obs) ==
    /\ env = "TwoInARowEnv"
    /\ n_calls < MaxCalls
    /\ n_calls' = n_calls + 1
    /\ call' = [op |-> "reset", action |-> 0]
    /\ curr_step' = 0
    /\ curr_episode' = curr_episode + 1
    /\ action_episode_memory' = Append(action_episode_memory, <<>>)
    /\ obs_episode_memory' = Append(obs_episode_memory, <<initial_obs>>)
    /\ ret' = Returned(initial_obs, 0, FALSE)
    /\ n_ok' = 0
    /\ n_fail' = 0
    /\ done_returned' = FALSE
    /\ UNCHANGED <<env, max_steps_per_episode>>

\* render: returns None
TwoInARowEnv_render(mode) ==
    /\ env = "TwoInARowEnv"
    /\ call' = [op |-> "render", action |-> 0]
    /\ ret' = Returned(<<>>, 0, FALSE)
    /\ UNCHANGED <<env, max_steps_per_episode, curr_episode, curr_step,
                   obs_episode_memory, action_episode_memory,
                   n_calls, n_ok, n_fail, done_returned>>

\* Mutation of close: the episode memories are released.
TwoInARowEnv_close_clears ==
    /\ env = "TwoInARowEnv"
    /\ call' = [op |-> "close", action |-> 0]
    /\ ret' = Returned(<<>>, 0, FALSE)
    /\ obs_episode_memory' = <<>>
    /\ action_episode_memory' = <<>>
    /\ UNCHANGED <<env, max_steps_per_episode, curr_episode, curr_step,
                   n_calls, n_ok, n_fail, done_returned>>

\* close: pass
TwoInARowEnv_close ==
    /\ env = "TwoInARowEnv"
    /\ call' = [op |-> "close", action |-> 0]
    /\ ret' = Returned(<<>>, 0, FALSE)
    /\ UNCHANGED <<env, max_steps_per_episode, curr_episode, curr_step,
                   obs_episode_memory, action_episode_memory,
                   n_calls, n_ok, n_fail, done_returned>>

\* q_values, lines 154-159: the rows handed to tabulate, one per input:
\* the observations of the input joined, then preds[i][0]
TwoInARowEnv_q_values_data(model) ==
    [i \in 1..Len(QInputs) |->
        <<<<QInputs[i][1][1], QInputs[i][2][1]>>>> \o model[QInputs[i]][1]]

\* q_values: returns the table of the rows; reads no attribute of self
TwoInARowEnv_q_values(model) ==
    /\ env = "TwoInARowEnv"
    /\ call' = [op |-> "q_values", action |-> 0]
    /\ ret' = Returned(TwoInARowEnv_q_values_data(model), 0, FALSE)
    /\ UNCHANGED <<env, max_steps_per_episode, curr_episode, curr_step,
                   obs_episode_memory, action_episode_memory,
                   n_calls, n_ok, n_fail, done_returned>>

\* ---------------------------------------------------------- specification
Next ==
    \/ \E a \in ActionInputs, ob \in GreaterThanZeroEnv_get_obs :
           GreaterThanZeroEnv_step(a, ob)
    \/ \E ob \in GreaterThanZeroEnv_get_obs : GreaterThanZeroEnv_reset(ob)
    \/ \E a \in ActionInputs, ob \in TwoInARowEnv_get_obs :
           TwoInARowEnv_step(a, ob)
    \/ \E ob \in TwoInARowEnv_get_obs : TwoInARowEnv_reset(ob)
    \/ \E mode \in RenderModes : GreaterThanZeroEnv_render(mode)
    \/ GreaterThanZeroEnv_close
    \/ \E mode \in RenderModes : TwoInARowEnv_render(mode)
    \/ TwoInARowEnv_close
    \/ \E model \in QModels : TwoInARowEnv_q_values(model)

Spec == Init /\ [][Next]_vars

\* The active episode's logs.
ActiveActions == action_episode_memory[curr_episode + 1]
ActiveObs == obs_episode_memory[curr_episode + 1]
\* The last transition was a call of step / a step that returned / a reset.
StepCalled == call'.op = "step" /\ n_calls' = n_calls + 1

StepReturned == StepCalled /\ ret'.kind = "ok"
Sign(o, a) == IF (o > 0 /\ a = 1) \/ (o <= 0 /\ a = 0) THEN 1 ELSE -1

\* ------------------------------------------------------------------ claims

\* C1: a step with an action outside {0,1} on an active episode that has not
\* reached max_steps_per_episode raises ValueError and leaves curr_step,
\* curr_episode and every action and observation log as they were.
C1_InvalidStepLeavesStateUnchanged ==
    [][(StepCalled /\ call'.action \notin {0, 1}
          /\ curr_episode >= 0 /\ curr_step < max_steps_per_episode)
         => (ret'.kind = "ValueError" /\ UNCHANGED state)]_vars

\* C2: once a step of the current episode has returned done = True, every
\* further step raises RuntimeError and leaves the whole environment state
\* unchanged; the flag is cleared by reset only.
C2_StepAfterDoneRejected ==
    [][(done_returned /\ n_calls' = n_calls + 1)
         => \/ call'.op = "reset"
            \/ (call'.op = "step" /\ ret'.kind = "RuntimeError"
                  /\ UNCHANGED state /\ done_returned')]_vars
C2_Witness ==
    /\ done_returned /\ call.op = "step" /\ ret.kind = "RuntimeError"
    /\ call.action \in {0, 1} /\ max_steps_per_episode = 2

\* C3: a successful step returns done = True exactly when the step count
\* after the increment equals max_steps_per_episode; in an episode of valid
\* step calls only, that is exactly the max_steps_per_episode-th call.
C3_DoneExactlyAtMaxSteps ==
    (call.op = "step" /\ ret.kind = "ok")
        => /\ ret.done <=> (curr_step = max_steps_per_episode)
           /\ (n_fail = 0 => curr_step = n_ok)
           /\ (n_fail = 0 => (ret.done <=> (n_ok = max_steps_per_episode)))
C3_Witness ==
    /\ call.op = "step" /\ ret.kind = "ok" /\ ret.done
    /\ n_fail = 0 /\ n_ok = 2 /\ max_steps_per_episode = 2

\* C4: after k successful step calls and no failing one since the last
\* reset, the active episode's action log has length k and its observation
\* log has length k + 1.
C4_LogLengthsAfterKSteps ==
    (curr_episode >= 0 /\ n_fail = 0)
        => /\ n_ok <= max_steps_per_episode
           /\ Len(ActiveActions) = n_ok
           /\ Len(ActiveObs) = n_ok + 1
C4_Witness ==
    /\ curr_episode >= 0 /\ n_fail = 0 /\ n_ok = 2
    /\ Len(ActiveActions) = 2 /\ Len(ActiveObs) = 3

\* C5: reset succeeds in every state; it increases curr_episode by exactly 1
\* (to 0 on the first call), sets curr_step to 0 and appends exactly one
\* record: an observation log holding only the returned observation and an
\* empty action log; the earlier records are kept.
C5_ResetStartsFreshEpisode ==
    [][(call'.op = "reset" /\ n_calls' = n_calls + 1)
         => /\ ret'.kind = "ok"
            /\ curr_episode' = curr_episode + 1
            /\ (n_calls = 0 => curr_episode' = 0)
            /\ curr_step' = 0
            /\ obs_episode_memory' = Append(obs_episode_memory, <<ret'.ob>>)
            /\ action_episode_memory' = Append(action_episode_memory, <<>>)]_vars
\* reset called on an episode that is done and has seen a failed step
C5_Witness ==
    /\ call.op = "reset" /\ ret.kind = "ok" /\ curr_episode = 1
    /\ curr_step = 0 /\ max_steps_per_episode = 2
    /\ Len(action_episode_memory[1]) = 2
    /\ action_episode_memory[1][2] = 2
    /\ action_episode_memory[2] = <<>>
    /\ obs_episode_memory[2] = <<ret.ob>>

\* C6: in GreaterThanZeroEnv a successful step(a) returns reward +1 if
\* (o > 0 and a == 1) or (o <= 0 and a == 0) and -1 otherwise, o being the
\* last observation recorded before the step.
C6_SignReward ==
    [][(env = "GreaterThanZeroEnv" /\ StepReturned)
         => ret'.reward = Sign(PyLast(ActiveObs)[1], call'.action)]_vars
\* the previous observation is 0, the returned one is positive, and the
\* reward is the one of the previous observation, not of the returned one
C6_Witness ==
    /\ env = "GreaterThanZeroEnv" /\ call.op = "step" /\ ret.kind = "ok"
    /\ Len(ActiveObs) >= 2
    /\ ActiveObs[Len(ActiveObs) - 1] = <<0>> /\ ret.ob = <<1>>
    /\ call.action = 0 /\ ret.reward = 1
    /\ ret.reward # Sign(ret.ob[1], call.action)

\* C7: in TwoInARowEnv a successful step(a) that is not the first successful
\* step of its episode is rewarded on the two last observations recorded
\* before it: equal, +1 for a == 1 and -1 for a == 0; different, +1 for
\* a == 0 and -1 for a == 1.
C7_TwoInARowReward ==
    [][(env = "TwoInARowEnv" /\ StepReturned /\ n_ok >= 1)
         => LET n == Len(ActiveObs)
                same == ActiveObs[n - 1] = ActiveObs[n]
                a == call'.action
            IN ret'.reward = IF same THEN (IF a = 1 THEN 1 ELSE -1)
                                     ELSE (IF a = 0 THEN 1 ELSE -1)]_vars
\* the pair before the step is [1, 0], the step returns 0: action 1 gets -1
C7_Witness ==
    /\ env = "TwoInARowEnv" /\ call.op = "step" /\ ret.kind = "ok"
    /\ n_ok = 2 /\ Len(ActiveObs) = 3
    /\ ActiveObs = <<<<1>>, <<0>>, <<0>>>>
    /\ call.action = 1 /\ ret.reward = -1

\* C8: in TwoInARowEnv the first successful step of every episode is
\* rewarded +1 for action 0 and -1 for action 1, whatever the initial
\* observation and the observations of earlier episodes.
C8_FirstStepReward ==
    [][(env = "TwoInARowEnv" /\ StepReturned /\ n_ok = 0)
         => ret'.reward = IF call'.action = 0 THEN 1 ELSE -1]_vars
\* second episode, after an episode that ended on two equal observations
C8_Witness ==
    /\ env = "TwoInARowEnv" /\ call.op = "step" /\ ret.kind = "ok"
    /\ n_ok = 1 /\ curr_episode = 1
    /\ obs_episode_memory[1] = <<<<1>>, <<1>>>>
    /\ ActiveObs[1] = <<1>>
    /\ call.action = 1 /\ ret.reward = -1

\* C9: a step with an action outside {0,1} on a started environment raises
\* ValueError whatever the episode status, also when the episode has
\* reached max_steps_per_episode steps.
C9_InvalidActionAlwaysValueError ==
    [][(StepCalled /\ call'.action \notin {0, 1} /\ curr_episode >= 0)
         => ret'.kind = "ValueError"]_vars

\* C10: len(observations) == len(actions) + 1 holds for the active episode
\* after reset and after every step that returned, also when earlier step
\* calls of the episode failed.
C10_ObsOneMoreThanActions ==
    (curr_episode >= 0 /\ call.op \in {"reset", "step"} /\ ret.kind = "ok")
        => Len(ActiveObs) = Len(ActiveActions) + 1

C12_RenderCloseQValuesNoEffect ==
    [][(call'.op \in {"render", "close", "q_values"})
         => /\ ret'.kind = "ok"
            /\ UNCHANGED state
            /\ UNCHANGED <<max_steps_per_episode, n_calls, n_ok, n_fail,
                           done_returned>>]_vars
\* q_values called on an episode that is done
C12_Witness ==
    /\ call.op = "q_values" /\ ret.kind = "ok" /\ Len(ret.ob) = 4
    /\ done_returned /\ curr_step = 2 /\ Len(ActiveObs) = 3

\* C13: a step of a started episode raises RuntimeError only if an earlier
\* step of the same episode returned done = True, however many invalid
\* steps were made in between.
C13_ExhaustedOnlyAfterDone ==
    [][(StepCalled /\ curr_episode >= 0 /\ ret'.kind = "RuntimeError")
         => done_returned]_vars

\* C14: before the first reset no step succeeds, no episode record exists
\* and curr_step stays 0.
C14_StepBeforeResetKeepsStepZero ==
    (curr_episode = -1)
        => /\ (call.op = "step" => ret.kind # "ok")
           /\ obs_episode_memory = <<>>
           /\ action_episode_memory = <<>>
           /\ curr_step = 0

\* C15: the observation returned by reset or by a successful step is the
\* last entry of the active episode's observation log, and the next
\* successful step is rewarded on the observations the caller was given:
\* the returned one in GreaterThanZeroEnv, the returned one and the one
\* logged before it in TwoInARowEnv.
C15_ReturnedObsIsLogged ==
    [][/\ (n_calls' = n_calls + 1 /\ ret'.kind = "ok")
            => PyLast(obs_episode_memory'[curr_episode' + 1]) = ret'.ob
       /\ (StepReturned /\ call.op \in {"reset", "step"} /\ ret.kind = "ok"
             /\ env = "GreaterThanZeroEnv")
            => ret'.reward = Sign(ret.ob[1], call'.action)
       /\ (StepReturned /\ call.op = "step" /\ ret.kind = "ok"
             /\ env = "TwoInARowEnv")
            => LET same == ActiveObs[Len(ActiveObs) - 1] = ret.ob
                   a == call'.action
               IN ret'.reward = IF same THEN (IF a = 1 THEN 1 ELSE -1)
                                        ELSE (IF a = 0 THEN 1 ELSE -1)]_vars
\* a step that returned a positive sample after a failed step and a
\* non-positive initial observation
C15_Witness ==
    /\ env = "GreaterThanZeroEnv" /\ call.op = "step" /\ ret.kind = "ok"
    /\ n_fail = 1 /\ ret.ob = <<1>>
    /\ ActiveObs = <<<<-1>>, <<1>>>>

\* C16: after the first reset curr_step is the length of the active
\* episode's action log, and obs_episode_memory and action_episode_memory
\* both hold curr_episode + 1 records.
C16_StepCountsActionLog ==
    (curr_episode >= 0)
        => /\ curr_step = Len(ActiveActions)
           /\ Len(obs_episode_memory) = curr_episode + 1
           /\ Len(action_episode_memory) = curr_episode + 1
\* second episode, after a stepped first episode, with a failed step in it
C16_Witness ==
    /\ curr_episode = 1 /\ call.op = "step" /\ ret.kind = "ValueError"
    /\ curr_step = 1 /\ ActiveActions = <<2>>
    /\ Len(action_episode_memory[1]) = 1

\* C17: 0 <= curr_step <= max_steps_per_episode in every reachable state,
\* the states before the first reset included.
C17_StepWithinLimit ==
    0 <= curr_step /\ curr_step <= max_steps_per_episode
\* before the first reset, steps have raised up to the limit
C17_Witness ==
    /\ curr_episode = -1 /\ curr_step = max_steps_per_episode
    /\ max_steps_per_episode = 2 /\ ret.kind = "RuntimeError"

\* The episode controller seen without observation values and rewards:
\* the counters and the lengths of the logs.
Controller ==
    [curr_step |-> curr_step,
     curr_episode |-> curr_episode,
     obs_lens |-> [i \in 1..Len(obs_episode_memory) |->
                      Len(obs_episode_memory[i])],
     action_lens |-> [i \in 1..Len(action_episode_memory) |->
                         Len(action_episode_memory[i])]]
\* What a call does to the controller, whichever the environment:
\* the outcome kind, the done flag and the next controller.
ControllerReset(c) ==
    [kind |-> "ok", done |-> FALSE,
     next |-> [curr_step |-> 0,
               curr_episode |-> c.curr_episode + 1,
               obs_lens |-> Append(c.obs_lens, 1),
               action_lens |-> Append(c.action_lens, 0)]]
ControllerStep(c, max, action) ==
    IF c.curr_step >= max
    THEN [kind |-> "RuntimeError", done |-> FALSE, next |-> c]
    ELSE IF c.curr_episode < 0
    THEN [kind |-> "IndexError", done |-> FALSE,
          next |-> [c EXCEPT !.curr_step = @ + 1]]
    ELSE IF action \notin {0, 1}
    THEN [kind |-> "ValueError", done |-> FALSE,
          next |-> [c EXCEPT !.curr_step = @ + 1,
                             !.action_lens[c.curr_episode + 1] = @ + 1]]
    ELSE [kind |-> "ok", done |-> (c.curr_step + 1 = max),
          next |-> [c EXCEPT !.curr_step = @ + 1,
                             !.action_lens[c.curr_episode + 1] = @ + 1,
                             !.obs_lens[c.curr_episode + 1] = @ + 1]]

\* C18: GreaterThanZeroEnv and TwoInARowEnv are the same episode controller:
\* the outcome kind and the done flag of every reset and step call, and
\* curr_step, curr_episode and the log lengths after it, are one function of
\* the controller before the call, max_steps_per_episode and the call, the
\* same for both environments; so equal call sequences give equal outcomes.
C18_SameEpisodeController ==
    [][(n_calls' = n_calls + 1)
         => LET o == IF call'.op = "reset"
                     THEN ControllerReset(Controller)
                     ELSE ControllerStep(Controller, max_steps_per_episode,
                                         call'.action)
            IN /\ call'.op \in {"reset", "step"}
               /\ ret'.kind = o.kind
               /\ ret'.done = o.done
               /\ Controller' = o.next]_vars
\* a step rejected in a second episode of TwoInARowEnv after a failed step
C18_Witness ==
    /\ env = "TwoInARowEnv" /\ curr_episode = 1
    /\ call.op = "step" /\ ret.kind = "RuntimeError"
    /\ action_episode_memory[2] = <<2>> /\ max_steps_per_episode = 1
    /\ Len(obs_episode_memory[1]) = 2

====
